---- MODULE Spec2Model ----
(***************************************************************************)
(* Environment validation (src/lib/config/env.ts) and the authentication   *)
(* policy built on it (src/lib/auth/config.ts).                            *)
(*                                                                         *)
(* process.env is a partial function from variable names to their text:    *)
(* a name outside its DOMAIN is an unset variable (undefined in the code). *)
(* Text is a TLA+ string, except for the five numeric variables, whose     *)
(* text is a sequence of one-character strings so that z.coerce.number()   *)
(* can be computed from the characters.                                    *)
(* A nullable value (string | null | undefined) is a sequence of length    *)
(* 0 (null / undefined) or 1 (the value).                                  *)
(***************************************************************************)
EXTENDS Integers, Sequences, FiniteSets, TLC

VARIABLES
    procEnv,     \* process.env
    pc,          \* "config" (process not started), "running", "failed"
    env,         \* the exported env of env.ts: {} or {the validated record}
    authConfig,  \* trustHost and debug of the exported authConfig: {} or {r}
    console,     \* lines written by console.error, in order
    thrown,      \* errors that escaped module evaluation, as a sequence
    printed,     \* lines written by printEnvConfig (console.log), in order
    db,          \* persisted user records (prisma.user)
    authResult,  \* outcome of the most recent authorize call
    token,       \* the JWT payload held by the client
    lastUser,    \* identity most recently handed to the jwt callback: {} or {u}
    refreshes,   \* jwt callbacks without an identity since the last sign-in
    session,     \* session most recently returned by the session callback
    firstUser,   \* session.user of the first materialization since the token
                 \* last changed: {} or {projection}
    fresh        \* session materializations since the token last changed

envVars  == <<procEnv, pc, env, authConfig, console, thrown, printed>>
authVars == <<db, authResult, token, lastUser, refreshes, session, firstUser, fresh>>
vars     == <<procEnv, pc, env, authConfig, console, thrown, printed,
              db, authResult, token, lastUser, refreshes, session, firstUser, fresh>>

----------------------------------------------------------------------------
(* Bounds of the model                                                     *)

\* at most this many variables are set in process.env before startup
MaxVars == 2

\* at most this many records in the user table
MaxUsers == 2

\* jwt callbacks without an identity that are counted after a sign-in
MaxRefreshes == 2

\* session materializations that are counted for one token
MaxMaterializations == 2

----------------------------------------------------------------------------
(* Nullable values and JavaScript truthiness                               *)

Null == <<>>
Some(v) == <<v>>

\* !!s for a string | null | undefined
Truthy(s) == s # Null /\ s[1] # ""

\* process.env[k] as a nullable string (enumerated and free-text variables)
Raw(k) == IF k \in DOMAIN procEnv THEN Some(procEnv[k]) ELSE Null

----------------------------------------------------------------------------
(* The variables read by env.ts, in the order the schema lists them,       *)
(* followed by the four signals validateEnv reads from process.env.        *)

VarOrder ==
    << "NODE_ENV", "NEXTAUTH_SECRET", "NEXTAUTH_URL", "AUTH_TRUST_HOST",
       "GOOGLE_CLIENT_ID", "GOOGLE_CLIENT_SECRET",
       "RATE_LIMIT_ENABLED", "RATE_LIMIT_MAX_REQUESTS", "RATE_LIMIT_WINDOW_SECONDS",
       "ANALYTICS_ENABLED", "ANALYTICS_SINK",
       "LOG_LEVEL", "LOG_FORMAT", "LOG_INCLUDE_TIMESTAMP",
       "DATABASE_QUERY_TIMEOUT", "CACHE_DEFAULT_TTL",
       "ENABLE_PERFORMANCE_MONITORING", "SLOW_QUERY_THRESHOLD_MS",
       "CI", "NEXT_PHASE", "CF_PAGES", "VERCEL" >>

VarNames == { VarOrder[i] : i \in DOMAIN VarOrder }

VarIndex == [ k \in VarNames |-> CHOOSE i \in DOMAIN VarOrder : VarOrder[i] = k ]

NumericVars ==
    { "RATE_LIMIT_MAX_REQUESTS", "RATE_LIMIT_WINDOW_SECONDS",
      "DATABASE_QUERY_TIMEOUT", "CACHE_DEFAULT_TTL", "SLOW_QUERY_THRESHOLD_MS" }

\* decimal text of a natural number, one character per digit
DigitChars == << "0", "1", "2", "3", "4", "5", "6", "7", "8", "9" >>

RECURSIVE toString(_)
toString(n) ==
    IF n < 10 THEN << DigitChars[n + 1] >>
    ELSE toString(n \div 10) \o << DigitChars[(n % 10) + 1] >>

\* Number(text) of z.coerce.number(): "" is 0, a run of decimal digits is that
\* integer, any other text of the model is NaN
IsDigit(c) == \E i \in DOMAIN DigitChars : DigitChars[i] = c

DigitVal(c) == (CHOOSE i \in DOMAIN DigitChars : DigitChars[i] = c) - 1

RECURSIVE DigitsVal(_)
DigitsVal(s) ==
    IF s = <<>> THEN 0
    ELSE DigitsVal(SubSeq(s, 1, Len(s) - 1)) * 10 + DigitVal(s[Len(s)])

AllDigits(s) == Len(s) > 0 /\ \A i \in DOMAIN s : IsDigit(s[i])

Number(s) ==
    IF s = <<>> THEN [nan |-> FALSE, val |-> 0]
    ELSE IF AllDigits(s) THEN [nan |-> FALSE, val |-> DigitsVal(s)]
    ELSE [nan |-> TRUE, val |-> 0]

----------------------------------------------------------------------------
(* envSchema.  Each field parser yields the parsed value, the issues it    *)
(* raised as (path, message) pairs, and whether it aborted the parse: a    *)
(* value of the wrong type or outside an enum aborts, a failed min / max / *)
(* url check only marks the result invalid, so later checks still run.     *)

Issue(path, message) == [path |-> path, message |-> message]

Ok(v) == [val |-> v, issues |-> <<>>, aborted |-> FALSE]

\* z.enum(values).default(default)
ParseEnum(k, values, default) ==
    IF Raw(k) = Null THEN Ok(default)
    ELSE IF Raw(k)[1] \in values THEN Ok(Raw(k)[1])
    ELSE [val |-> Raw(k)[1], issues |-> << Issue(k, "invalid_enum_value") >>,
          aborted |-> TRUE]

\* z.enum(['true', 'false']).default(default).transform(val => val === 'true')
ParseFlag(k, default) ==
    LET e == ParseEnum(k, {"true", "false"}, default)
    IN  IF e.aborted THEN e ELSE Ok(e.val = "true")

\* z.string().min(1, message).default(default)
ParseSecret(k, message, default) ==
    IF Raw(k) = Null THEN Ok(default)
    ELSE IF Raw(k)[1] = ""
         THEN [val |-> "", issues |-> << Issue(k, message) >>, aborted |-> FALSE]
    ELSE Ok(Raw(k)[1])

\* z.string().min(1, message).optional()
ParseOptionalNonEmpty(k, message) ==
    IF Raw(k) = Null THEN Ok(Null)
    ELSE IF Raw(k)[1] = ""
         THEN [val |-> Some(""), issues |-> << Issue(k, message) >>,
               aborted |-> FALSE]
    ELSE Ok(Raw(k))

\* the texts of the model that z.string().url() accepts
WellFormedUrls == { "https://app.example.com" }

\* z.string().url().optional()
ParseOptionalUrl(k) ==
    IF Raw(k) = Null THEN Ok(Null)
    ELSE IF Raw(k)[1] \in WellFormedUrls THEN Ok(Raw(k))
    ELSE [val |-> Raw(k), issues |-> << Issue(k, "invalid_string") >>,
          aborted |-> FALSE]

\* minimum, maximum and default of the numeric fields
NumericRange ==
    [ RATE_LIMIT_MAX_REQUESTS   |-> [min |-> 1,    max |-> 10000, default |-> 100],
      RATE_LIMIT_WINDOW_SECONDS |-> [min |-> 1,    max |-> 3600,  default |-> 60],
      DATABASE_QUERY_TIMEOUT    |-> [min |-> 1000, max |-> 30000, default |-> 5000],
      CACHE_DEFAULT_TTL         |-> [min |-> 1,    max |-> 86400, default |-> 3600],
      SLOW_QUERY_THRESHOLD_MS   |-> [min |-> 100,  max |-> 10000, default |-> 1000] ]

\* ParseNumber without the .max(max) check
ParseNumber_noMax(k) ==
    LET r == NumericRange[k]
        n == Number(procEnv[k])
    IN  IF k \notin DOMAIN procEnv THEN Ok(r.default)
        ELSE IF n.nan
             THEN [val |-> 0, issues |-> << Issue(k, "invalid_type") >>,
                   aborted |-> TRUE]
        ELSE [val |-> n.val,
              issues |-> (IF n.val < r.min THEN << Issue(k, "too_small") >> ELSE <<>>),
              aborted |-> FALSE]

\* z.coerce.number().min(min).max(max).default(default)
ParseNumber(k) ==
    LET r == NumericRange[k]
        n == Number(procEnv[k])
    IN  IF k \notin DOMAIN procEnv THEN Ok(r.default)
        ELSE IF n.nan
             THEN [val |-> 0, issues |-> << Issue(k, "invalid_type") >>,
                   aborted |-> TRUE]
        ELSE [val |-> n.val,
              issues |-> (IF n.val < r.min THEN << Issue(k, "too_small") >> ELSE <<>>)
                         \o (IF n.val > r.max THEN << Issue(k, "too_big") >> ELSE <<>>),
              aborted |-> FALSE]

\* the z.object({...}) of envSchema, field by field
ParseFields ==
    [ NODE_ENV |-> ParseEnum("NODE_ENV", {"development", "production", "test"},
                             "development"),
      NEXTAUTH_SECRET |-> ParseSecret("NEXTAUTH_SECRET", "NEXTAUTH_SECRET is required",
                                      "dev-secret"),
      NEXTAUTH_URL |-> ParseOptionalUrl("NEXTAUTH_URL"),
      AUTH_TRUST_HOST |-> ParseFlag("AUTH_TRUST_HOST", "false"),
      GOOGLE_CLIENT_ID |->
          ParseOptionalNonEmpty("GOOGLE_CLIENT_ID",
                                "GOOGLE_CLIENT_ID must be a non-empty string"),
      GOOGLE_CLIENT_SECRET |->
          ParseOptionalNonEmpty("GOOGLE_CLIENT_SECRET",
                                "GOOGLE_CLIENT_SECRET must be a non-empty string"),
      RATE_LIMIT_ENABLED |-> ParseFlag("RATE_LIMIT_ENABLED", "true"),
      RATE_LIMIT_MAX_REQUESTS |-> ParseNumber("RATE_LIMIT_MAX_REQUESTS"),
      RATE_LIMIT_WINDOW_SECONDS |-> ParseNumber("RATE_LIMIT_WINDOW_SECONDS"),
      ANALYTICS_ENABLED |-> ParseFlag("ANALYTICS_ENABLED", "true"),
      ANALYTICS_SINK |-> ParseEnum("ANALYTICS_SINK", {"log", "kv", "d1", "engine"}, "log"),
      LOG_LEVEL |-> ParseEnum("LOG_LEVEL", {"DEBUG", "INFO", "WARN", "ERROR"}, "INFO"),
      LOG_FORMAT |-> ParseEnum("LOG_FORMAT", {"json", "pretty"}, "json"),
      LOG_INCLUDE_TIMESTAMP |-> ParseFlag("LOG_INCLUDE_TIMESTAMP", "true"),
      DATABASE_QUERY_TIMEOUT |-> ParseNumber("DATABASE_QUERY_TIMEOUT"),
      CACHE_DEFAULT_TTL |-> ParseNumber("CACHE_DEFAULT_TTL"),
      ENABLE_PERFORMANCE_MONITORING |-> ParseFlag("ENABLE_PERFORMANCE_MONITORING", "true"),
      SLOW_QUERY_THRESHOLD_MS |-> ParseNumber("SLOW_QUERY_THRESHOLD_MS") ]

\* the fields of the schema, in schema order
SchemaFields == SubSeq(VarOrder, 1, 18)

RECURSIVE FieldIssues(_, _)
FieldIssues(fields, i) ==
    IF i > Len(SchemaFields) THEN <<>>
    ELSE fields[SchemaFields[i]].issues \o FieldIssues(fields, i + 1)

\* the record of parsed values
FieldValues(fields) == [ k \in DOMAIN fields |-> fields[k].val ]

\* SuperRefine testing only for an identifier that lacks its secret
SuperRefine_idOnly(value) ==
    IF Truthy(value.GOOGLE_CLIENT_ID) /\ ~Truthy(value.GOOGLE_CLIENT_SECRET)
    THEN << Issue("GOOGLE_CLIENT_ID",
                  "GOOGLE_CLIENT_ID and GOOGLE_CLIENT_SECRET must be provided together") >>
    ELSE <<>>

\* the .superRefine of envSchema: the issues it adds for a parsed value
SuperRefine(value) ==
    IF \/ Truthy(value.GOOGLE_CLIENT_ID) /\ ~Truthy(value.GOOGLE_CLIENT_SECRET)
       \/ ~Truthy(value.GOOGLE_CLIENT_ID) /\ Truthy(value.GOOGLE_CLIENT_SECRET)
    THEN << Issue("GOOGLE_CLIENT_ID",
                  "GOOGLE_CLIENT_ID and GOOGLE_CLIENT_SECRET must be provided together") >>
    ELSE <<>>

\* the outcome of the schema for the field results: the value and the issues
\* of the ZodError (the refinement runs unless a field aborted the parse)
SchemaResult(fields) ==
    [ value  |-> FieldValues(fields),
      issues |-> FieldIssues(fields, 1)
                 \o (IF \E k \in DOMAIN fields : fields[k].aborted
                     THEN <<>>
                     ELSE SuperRefine(FieldValues(fields))) ]

\* envSchema.parse(process.env): no issues, the value is returned; otherwise a
\* ZodError carrying the issues is thrown
EnvSchemaParse == SchemaResult(ParseFields)

----------------------------------------------------------------------------
(* validateEnv and the module-level exports                                *)

Line(path, text) == [path |-> path, text |-> text]

GuardLog ==
    "NEXTAUTH_SECRET is using the default development value. Please set a secure secret in production."

GuardError == "NEXTAUTH_SECRET must be configured for production environments"

SchemaError == "Environment variable validation failed. Please check configuration"

\* TrustHostOverride that does not ask whether AUTH_TRUST_HOST was set
TrustHostOverride_ignoresExplicit(parsed) ==
    IF /\ parsed.AUTH_TRUST_HOST = FALSE
       /\ (Truthy(Raw("CF_PAGES")) \/ Truthy(Raw("VERCEL")))
    THEN [parsed EXCEPT !.AUTH_TRUST_HOST = TRUE]
    ELSE parsed

\* the host-trust override of validateEnv, applied to the parsed record
TrustHostOverride(parsed) ==
    IF /\ parsed.AUTH_TRUST_HOST = FALSE
       /\ ~Truthy(Raw("AUTH_TRUST_HOST"))
       /\ (Truthy(Raw("CF_PAGES")) \/ Truthy(Raw("VERCEL")))
    THEN [parsed EXCEPT !.AUTH_TRUST_HOST = TRUE]
    ELSE parsed

isCI == Raw("CI") = Some("true")

isBuildTime == Raw("NEXT_PHASE") = Some("phase-production-build")

\* ProductionGuard taking any non-empty CI for a CI run (!process.env.CI)
ProductionGuard_anyCI(parsed) ==
    /\ parsed.NEXTAUTH_SECRET = "dev-secret"
    /\ parsed.NODE_ENV = "production"
    /\ ~Truthy(Raw("CI"))
    /\ ~isBuildTime

\* the condition of the production guard of validateEnv
ProductionGuard(parsed) ==
    /\ parsed.NEXTAUTH_SECRET = "dev-secret"
    /\ parsed.NODE_ENV = "production"
    /\ ~isCI
    /\ ~isBuildTime

\* the lines the catch block logs for a ZodError
RECURSIVE IssueLines(_)
IssueLines(issues) ==
    IF issues = <<>> THEN <<>>
    ELSE << Line(Head(issues).path, Head(issues).message) >> \o IssueLines(Tail(issues))

\* ZodErrorLog reporting the first issue only (error.issues[0])
ZodErrorLog_firstOnly(issues) ==
    << Line("", "Environment variable validation failed:"),
       Line("", "-----------------------------------"),
       Line(Head(issues).path, Head(issues).message),
       Line("", "-----------------------------------"),
       Line("", "Please check environment variable configuration in .env.local or wrangler.toml") >>

ZodErrorLog(issues) ==
    << Line("", "Environment variable validation failed:"),
       Line("", "-----------------------------------") >>
    \o IssueLines(issues)
    \o << Line("", "-----------------------------------"),
          Line("", "Please check environment variable configuration in .env.local or wrangler.toml") >>

\* the body of validateEnv for the outcome p of envSchema.parse: ret is {}
\* when it throws and {the record} when it returns, log the console.error
\* lines in order, err the error that escapes it
ValidateParsed(p) ==
    IF p.issues # <<>>
    THEN [ret |-> {}, log |-> ZodErrorLog(p.issues), err |-> << SchemaError >>]
    ELSE IF ProductionGuard(TrustHostOverride(p.value))
    THEN [ret |-> {}, log |-> << Line("", GuardLog) >>, err |-> << GuardError >>]
    ELSE [ret |-> {TrustHostOverride(p.value)}, log |-> <<>>, err |-> <<>>]

validateEnv == ValidateParsed(EnvSchemaParse)

\* trustHost and debug of authConfig, evaluated when config.ts is loaded
AuthConfigOf(e) ==
    [ trustHost |-> e.AUTH_TRUST_HOST,
      debug     |-> (Raw("NODE_ENV") = Some("development")) ]

isProduction == \E e \in env : e.NODE_ENV = "production"

isDevelopment == \E e \in env : e.NODE_ENV = "development"

isTest == \E e \in env : e.NODE_ENV = "test"

OnOff(b) == IF b THEN "Enabled" ELSE "Disabled"

\* the console.log lines of printEnvConfig for the record e
PrintLines(e) ==
    << <<"Environment variable configuration:">>,
       <<"-----------------------------------">>,
       <<"Environment", e.NODE_ENV>>,
       <<"Rate limiting", OnOff(e.RATE_LIMIT_ENABLED)>> >>
    \o (IF e.RATE_LIMIT_ENABLED
        THEN << <<"Max requests", e.RATE_LIMIT_MAX_REQUESTS>>,
                <<"Time window", e.RATE_LIMIT_WINDOW_SECONDS>> >>
        ELSE <<>>)
    \o << <<"Log level", e.LOG_LEVEL>>,
          <<"Log format", e.LOG_FORMAT>>,
          <<"Analytics", OnOff(e.ANALYTICS_ENABLED)>>,
          <<"Performance monitoring", OnOff(e.ENABLE_PERFORMANCE_MONITORING)>>,
          <<"-----------------------------------">> >>

----------------------------------------------------------------------------
(* The texts a variable is set to before the process starts                *)

NumericTexts(k) ==
    LET r == NumericRange[k]
    IN  { toString(r.min - 1), toString(r.min), toString(r.max), toString(r.max + 1),
          <<>>, <<"a", "b", "c">> }

Candidates ==
    [ k \in VarNames |->
        IF k \in NumericVars THEN NumericTexts(k)
        ELSE IF k = "NODE_ENV" THEN {"development", "production", "test", "staging"}
        ELSE IF k = "NEXTAUTH_SECRET" THEN {"", "dev-secret", "s3cret"}
        ELSE IF k = "NEXTAUTH_URL" THEN {"https://app.example.com", "not a url"}
        ELSE IF k \in {"AUTH_TRUST_HOST", "RATE_LIMIT_ENABLED", "ANALYTICS_ENABLED",
                       "LOG_INCLUDE_TIMESTAMP", "ENABLE_PERFORMANCE_MONITORING"}
             THEN {"true", "false", ""}
        ELSE IF k = "GOOGLE_CLIENT_ID" THEN {"", "client-id"}
        ELSE IF k = "GOOGLE_CLIENT_SECRET" THEN {"", "client-secret"}
        ELSE IF k = "ANALYTICS_SINK" THEN {"kv", "engine", "s3"}
        ELSE IF k = "LOG_LEVEL" THEN {"DEBUG", "ERROR", "TRACE"}
        ELSE IF k = "LOG_FORMAT" THEN {"pretty", "xml"}
        ELSE IF k = "CI" THEN {"true", "1"}
        ELSE IF k = "NEXT_PHASE" THEN {"phase-production-build", "phase-production-server"}
        ELSE {"1", ""} ]

----------------------------------------------------------------------------
(* The credentials provider and the callbacks of authConfig                *)

\* user records the table may hold: id, unique email, nullable name, image
\* and password hash
UserPool ==
    { [id |-> 12, email |-> "ann@example.com", name |-> Some("Ann"),
       image |-> Some("ann.png"), password |-> Some("hash-ann")],
      [id |-> 7, email |-> "bob@example.com", name |-> Null,
       image |-> Null, password |-> Null],
      [id |-> 305, email |-> "eve@example.com", name |-> Some("Eve"),
       image |-> Null, password |-> Some("")] }

\* what a caller submits as credentials.email / credentials.password
SubmittedEmails ==
    { Null, Some(""), Some("ann@example.com"), Some("bob@example.com"),
      Some("eve@example.com"), Some("zed@example.com") }

SubmittedPasswords == { Null, Some(""), Some("correct horse"), Some("guess") }

\* prisma.user.findUnique({ where: { email } }): {} or {the record}
FindUnique(users, email) == { u \in users : Some(u.email) = email }

MissingCredentials == "Please provide email and password"

InvalidCredentials == "Invalid email or password"

\* the object authorize returns for the record u
Identity(u) ==
    [ id    |-> Some(toString(u.id)),
      email |-> Some(u.email),
      name  |-> u.name,
      image |-> u.image ]

Rejected(message, users) ==
    [kind |-> "error", message |-> message, identity |-> {}, db |-> users]

\* authorize telling the caller that no account has the email
authorize_namesMissingUser(credentials, verifies, users) ==
    IF ~Truthy(credentials.email) \/ ~Truthy(credentials.password)
    THEN Rejected(MissingCredentials, users)
    ELSE LET found == FindUnique(users, credentials.email)
         IN  IF found = {}
             THEN Rejected("No account for this email", users)
             ELSE IF \E u \in found : ~Truthy(u.password)
             THEN Rejected(InvalidCredentials, users)
             ELSE IF ~verifies
             THEN Rejected(InvalidCredentials, users)
             ELSE [kind |-> "ok", message |-> "",
                   identity |-> { Identity(u) : u \in found }, db |-> users]

\* authorize ignoring the answer of verifyPassword (a missing await)
authorize_ignoresVerifier(credentials, verifies, users) ==
    IF ~Truthy(credentials.email) \/ ~Truthy(credentials.password)
    THEN Rejected(MissingCredentials, users)
    ELSE LET found == FindUnique(users, credentials.email)
         IN  IF found = {} \/ \E u \in found : ~Truthy(u.password)
             THEN Rejected(InvalidCredentials, users)
             ELSE [kind |-> "ok", message |-> "",
                   identity |-> { Identity(u) : u \in found }, db |-> users]

\* authorize(credentials) against the table users, where verifies is what
\* verifyPassword answers if it is asked; db is the table after the call
authorize(credentials, verifies, users) ==
    IF ~Truthy(credentials.email) \/ ~Truthy(credentials.password)
    THEN Rejected(MissingCredentials, users)
    ELSE LET found == FindUnique(users, credentials.email)
         IN  IF found = {} \/ \E u \in found : ~Truthy(u.password)
             THEN Rejected(InvalidCredentials, users)
             ELSE IF ~verifies
             THEN Rejected(InvalidCredentials, users)
             ELSE [kind |-> "ok", message |-> "",
                   identity |-> { Identity(u) : u \in found }, db |-> users]

\* jwt copying the fields of user without testing that one was passed
jwt_alwaysCopies(tok, user) ==
    IF user # {}
    THEN LET u == CHOOSE x \in user : TRUE
         IN  [tok EXCEPT !.id = u.id, !.email = u.email,
                         !.name = u.name, !.picture = u.image]
    ELSE [tok EXCEPT !.id = Null, !.email = Null, !.name = Null, !.picture = Null]

\* callbacks.jwt({ token, user }); user is {} when the engine passes none
jwt(tok, user) ==
    IF user # {}
    THEN LET u == CHOOSE x \in user : TRUE
         IN  [tok EXCEPT !.id = u.id, !.email = u.email,
                         !.name = u.name, !.picture = u.image]
    ELSE tok

\* sessionCallback leaving session.user.image as the engine passed it
sessionCallback_keepsImage(sess, tok) ==
    IF sess.user # {}
    THEN [sess EXCEPT !.user = { [x EXCEPT !.id = tok.id, !.email = tok.email,
                                           !.name = tok.name]
                                 : x \in sess.user }]
    ELSE sess

\* callbacks.session({ session, token }); sess.user is {} when absent
sessionCallback(sess, tok) ==
    IF sess.user # {}
    THEN [sess EXCEPT !.user = { [x EXCEPT !.id = tok.id, !.email = tok.email,
                                           !.name = tok.name, !.image = tok.picture]
                                 : x \in sess.user }]
    ELSE sess

\* identities the OAuth provider hands to the engine
OAuthIdentities ==
    { [id |-> Some(<<"4", "1">>), email |-> Some("gil@example.com"),
       name |-> Some("Gil"), image |-> Some("gil.png")] }

\* session objects the engine hands to the session callback
SessionInputs ==
    { [user |-> {}, expires |-> "in 30 days"],
      [user |-> {[id |-> Null, email |-> Null, name |-> Null, image |-> Null]},
       expires |-> "in 30 days"],
      [user |-> {[id |-> Some(<<"0">>), email |-> Some("old@example.com"),
                  name |-> Some("Old"), image |-> Some("old.png")]},
       expires |-> "in 30 days"] }

NoToken == [id |-> Null, email |-> Null, name |-> Null, picture |-> Null, sub |-> Null]

NoSession == [user |-> {}, expires |-> "never"]

NoResult ==
    [ serial |-> 0, kind |-> "none", message |-> "", identity |-> {},
      credentials |-> [email |-> Null, password |-> Null], verifies |-> FALSE ]

----------------------------------------------------------------------------
(* Startup                                                                 *)

Init ==
    /\ procEnv = [k \in {} |-> ""]
    /\ pc = "config"
    /\ env = {}
    /\ authConfig = {}
    /\ console = <<>>
    /\ thrown = <<>>
    /\ printed = <<>>
    /\ db = {}
    /\ authResult = NoResult
    /\ token = NoToken
    /\ lastUser = {}
    /\ refreshes = 0
    /\ session = NoSession
    /\ firstUser = {}
    /\ fresh = 0

\* the deployment sets one more variable, in the order of VarOrder
SetVar(k, v) ==
    /\ pc = "config"
    /\ Cardinality(DOMAIN procEnv) < MaxVars
    /\ \A j \in DOMAIN procEnv : VarIndex[j] < VarIndex[k]
    /\ procEnv' = (k :> v) @@ procEnv
    /\ UNCHANGED <<pc, env, authConfig, console, thrown, printed>>
    /\ UNCHANGED authVars

\* the process starts: env.ts is evaluated (export const env = validateEnv()),
\* then config.ts, which reads env
Startup ==
    /\ pc = "config"
    /\ \E r \in {validateEnv} :
           /\ console' = console \o r.log
           /\ thrown' = thrown \o r.err
           /\ env' = r.ret
           /\ authConfig' = { AuthConfigOf(e) : e \in r.ret }
           /\ pc' = IF r.ret = {} THEN "failed" ELSE "running"
    /\ UNCHANGED <<procEnv, printed>>
    /\ UNCHANGED authVars

\* printEnvConfig(), callable once env.ts has been loaded
printEnvConfig ==
    /\ pc = "running"
    /\ printed = <<>>
    /\ printed' = PrintLines(CHOOSE e \in env : TRUE)
    /\ UNCHANGED <<procEnv, pc, env, authConfig, console, thrown>>
    /\ UNCHANGED authVars

Next ==
    \/ \E k \in VarNames : \E v \in Candidates[k] : SetVar(k, v)
    \/ Startup
    \/ printEnvConfig

Spec == Init /\ [][Next]_vars

----------------------------------------------------------------------------
(* Requests served by the running process                                  *)

InitAuth ==
    /\ procEnv = [k \in {} |-> ""]
    /\ pc = "running"
    /\ env = validateEnv.ret
    /\ authConfig = { AuthConfigOf(e) : e \in validateEnv.ret }
    /\ console = <<>>
    /\ thrown = <<>>
    /\ printed = <<>>
    /\ db \in { d \in SUBSET UserPool : Cardinality(d) <= MaxUsers }
    /\ authResult = NoResult
    /\ token = NoToken
    /\ lastUser = {}
    /\ refreshes = 0
    /\ session = NoSession
    /\ firstUser = {}
    /\ fresh = 0

\* the surrounding application stores or deletes a user record
AddUser(u) ==
    /\ pc = "running"
    /\ u \notin db
    /\ Cardinality(db) < MaxUsers
    /\ db' = db \cup {u}
    /\ UNCHANGED <<authResult, token, lastUser, refreshes, session, firstUser, fresh>>
    /\ UNCHANGED envVars

RemoveUser(u) ==
    /\ pc = "running"
    /\ u \in db
    /\ db' = db \ {u}
    /\ UNCHANGED <<authResult, token, lastUser, refreshes, session, firstUser, fresh>>
    /\ UNCHANGED envVars

\* a sign-in attempt through the credentials provider
Authorize(credentials, verifies) ==
    /\ pc = "running"
    /\ \E r \in { authorize(credentials, verifies, db) } :
           /\ authResult' = [ serial      |-> 1 - authResult.serial,
                              kind        |-> r.kind,
                              message     |-> r.message,
                              identity    |-> r.identity,
                              credentials |-> credentials,
                              verifies    |-> verifies ]
           /\ db' = r.db
    /\ UNCHANGED <<token, lastUser, refreshes, session, firstUser, fresh>>
    /\ UNCHANGED envVars

\* the engine issues the token of a sign-in: the jwt callback with the identity
JwtSignIn(u) ==
    /\ pc = "running"
    /\ token' = jwt([token EXCEPT !.sub = u.id], {u})
    /\ lastUser' = {u}
    /\ refreshes' = 0
    /\ firstUser' = {}
    /\ fresh' = 0
    /\ UNCHANGED <<db, authResult, session>>
    /\ UNCHANGED envVars

\* the engine re-issues the token of a signed-in client: the jwt callback
\* without an identity
JwtRefresh ==
    /\ pc = "running"
    /\ lastUser # {}
    /\ refreshes < MaxRefreshes
    /\ token' = jwt(token, {})
    /\ refreshes' = refreshes + 1
    /\ IF token' = token
       THEN UNCHANGED <<firstUser, fresh>>
       ELSE firstUser' = {} /\ fresh' = 0
    /\ UNCHANGED <<db, authResult, lastUser, session>>
    /\ UNCHANGED envVars

\* the engine materializes the session of a request: the jwt callback without
\* an identity, then the session callback
Session(sess) ==
    /\ pc = "running"
    /\ lastUser # {}
    /\ fresh < MaxMaterializations
    /\ token' = jwt(token, {})
    /\ session' = sessionCallback(sess, token')
    /\ fresh' = IF token' = token THEN fresh + 1 ELSE 1
    /\ firstUser' = IF token' = token /\ firstUser # {} THEN firstUser ELSE session'.user
    /\ UNCHANGED <<db, authResult, lastUser, refreshes>>
    /\ UNCHANGED envVars

NextAuth ==
    \/ \E u \in UserPool : AddUser(u)
    \/ \E u \in UserPool : RemoveUser(u)
    \/ \E e \in SubmittedEmails, p \in SubmittedPasswords, v \in BOOLEAN :
           Authorize([email |-> e, password |-> p], v)
    \/ \E u \in authResult.identity \cup OAuthIdentities : JwtSignIn(u)
    \/ JwtRefresh
    \/ \E sess \in SessionInputs : Session(sess)

SpecAuth == InitAuth /\ [][NextAuth]_vars

----------------------------------------------------------------------------
(* Properties of startup validation (specification Spec)                   *)

Set(k) == k \in DOMAIN procEnv

Started == pc # "config"

\* the session secret the schema yields is the placeholder: the variable is
\* unset (defaulted) or set to 'dev-secret'
PlaceholderSecret == ~Set("NEXTAUTH_SECRET") \/ procEnv["NEXTAUTH_SECRET"] = "dev-secret"

ProductionMode == Set("NODE_ENV") /\ procEnv["NODE_ENV"] = "production"

CISignal == Set("CI") /\ procEnv["CI"] = "true"

BuildSignal == Set("NEXT_PHASE") /\ procEnv["NEXT_PHASE"] = "phase-production-build"

GuardReported == \E i \in DOMAIN console : console[i] = Line("", GuardLog)

\* C1: with the placeholder secret, production mode and neither the CI nor the
\* build-phase signal, startup fails with an error and exports no record (with
\* the guard's error whenever the schema itself is satisfied); with the
\* placeholder secret and either a mode other than production or one of the two
\* signals, startup never fails with the guard's error.
C1_ProductionGuard ==
    (Started /\ PlaceholderSecret) =>
        IF ProductionMode /\ ~CISignal /\ ~BuildSignal
        THEN /\ pc = "failed"
             /\ env = {}
             /\ authConfig = {}
             /\ thrown \in { << GuardError >>, << SchemaError >> }
             /\ (thrown = << GuardError >>) = GuardReported
             /\ (thrown = << SchemaError >>) = (EnvSchemaParse.issues # <<>>)
        ELSE /\ thrown # << GuardError >>
             /\ ~GuardReported
             /\ (pc = "failed") = (EnvSchemaParse.issues # <<>>)

\* C1 witness: an explicitly set placeholder secret stopped a production start
C1_Witness ==
    /\ pc = "failed"
    /\ Set("NEXTAUTH_SECRET")
    /\ ProductionMode
    /\ thrown = << GuardError >>

TogetherIssue ==
    Line("GOOGLE_CLIENT_ID",
         "GOOGLE_CLIENT_ID and GOOGLE_CLIENT_SECRET must be provided together")

NonEmpty(k) == Set(k) /\ procEnv[k] # ""

\* C2: startup fails when exactly one of GOOGLE_CLIENT_ID and
\* GOOGLE_CLIENT_SECRET is set, and when one is set non-empty while the other
\* is set but empty; when both are set non-empty or both are unset, the
\* cross-field issue is never reported.
C2_OAuthPair ==
    Started =>
        /\ (Set("GOOGLE_CLIENT_ID") # Set("GOOGLE_CLIENT_SECRET")) =>
               (pc = "failed" /\ env = {} /\ thrown = << SchemaError >>)
        /\ (NonEmpty("GOOGLE_CLIENT_ID") # NonEmpty("GOOGLE_CLIENT_SECRET")) =>
               (pc = "failed" /\ env = {} /\ thrown = << SchemaError >>)
        /\ (NonEmpty("GOOGLE_CLIENT_ID") = NonEmpty("GOOGLE_CLIENT_SECRET")
            /\ Set("GOOGLE_CLIENT_ID") = NonEmpty("GOOGLE_CLIENT_ID")
            /\ Set("GOOGLE_CLIENT_SECRET") = NonEmpty("GOOGLE_CLIENT_SECRET")) =>
               \A i \in DOMAIN console : console[i] # TogetherIssue

\* C2 witness: a secret without its identifier was rejected
C2_Witness ==
    /\ pc = "failed"
    /\ NonEmpty("GOOGLE_CLIENT_SECRET")
    /\ ~Set("GOOGLE_CLIENT_ID")
    /\ \E i \in DOMAIN console : console[i] = TogetherIssue

\* C5: the debug flag of authConfig is on exactly when the validated run mode
\* (env.NODE_ENV, development when NODE_ENV is unset) is development.
C5_DebugMirrorsRunMode ==
    pc = "running" => \A a \in authConfig : a.debug = isDevelopment

\* a platform signal is present when CF_PAGES or VERCEL holds a non-empty text
PlatformSignal == NonEmpty("CF_PAGES") \/ NonEmpty("VERCEL")

\* C8: in the exported record and in authConfig.trustHost, the host-trust
\* flag is the explicit value when AUTH_TRUST_HOST is set ('true' gives true,
\* 'false' gives false, whatever the platform signals), and otherwise it is
\* true exactly when a platform signal is present.
C8_TrustHost ==
    pc = "running" =>
        /\ authConfig # {}
        /\ \A e \in env : \A a \in authConfig :
               /\ a.trustHost = e.AUTH_TRUST_HOST
               /\ e.AUTH_TRUST_HOST =
                      IF Set("AUTH_TRUST_HOST")
                      THEN procEnv["AUTH_TRUST_HOST"] = "true"
                      ELSE PlatformSignal

\* C8 witness: an explicit 'false' was kept although a platform signal is present
C8_Witness ==
    /\ pc = "running"
    /\ Set("AUTH_TRUST_HOST")
    /\ procEnv["AUTH_TRUST_HOST"] = "false"
    /\ PlatformSignal
    /\ \E a \in authConfig : a.trustHost = FALSE

\* the ranges and defaults the numeric fields are documented with
StatedRange ==
    [ RATE_LIMIT_MAX_REQUESTS   |-> [min |-> 1,    max |-> 10000, default |-> 100],
      RATE_LIMIT_WINDOW_SECONDS |-> [min |-> 1,    max |-> 3600,  default |-> 60],
      DATABASE_QUERY_TIMEOUT    |-> [min |-> 1000, max |-> 30000, default |-> 5000],
      CACHE_DEFAULT_TTL         |-> [min |-> 1,    max |-> 86400, default |-> 3600],
      SLOW_QUERY_THRESHOLD_MS   |-> [min |-> 100,  max |-> 10000, default |-> 1000] ]

OutOfRange(k) ==
    /\ Set(k)
    /\ ~Number(procEnv[k]).nan
    /\ \/ Number(procEnv[k]).val < StatedRange[k].min
       \/ Number(procEnv[k]).val > StatedRange[k].max

\* C9: a numeric variable set below its minimum or above its maximum makes
\* startup fail, so every exported record has each numeric field within its
\* range, and at its default when the variable is unset.
C9_NumericBounds ==
    Started =>
        /\ (\E k \in NumericVars : OutOfRange(k)) =>
               (pc = "failed" /\ env = {} /\ thrown = << SchemaError >>)
        /\ \A e \in env : \A k \in NumericVars :
               /\ e[k] >= StatedRange[k].min
               /\ e[k] <= StatedRange[k].max
               /\ ~Set(k) => e[k] = StatedRange[k].default
               /\ Set(k) => e[k] = Number(procEnv[k]).val

\* C9 witness: RATE_LIMIT_MAX_REQUESTS = "0" was rejected
C9_Witness ==
    /\ pc = "failed"
    /\ Set("RATE_LIMIT_MAX_REQUESTS")
    /\ procEnv["RATE_LIMIT_MAX_REQUESTS"] = << "0" >>
    /\ \E i \in DOMAIN console :
           console[i] = Line("RATE_LIMIT_MAX_REQUESTS", "too_small")

\* the console lines that report an issue, in order
RECURSIVE Reported(_)
Reported(lines) ==
    IF lines = <<>> THEN <<>>
    ELSE (IF Head(lines).path # "" THEN << Head(lines) >> ELSE <<>>)
         \o Reported(Tail(lines))

\* the outcome of a finished start for the schema issues of process.env and
\* the issue lines on the console
FatalAndLogged(issues, reported) ==
    /\ (pc = "failed") =
           (issues # <<>>
            \/ (PlaceholderSecret /\ ProductionMode /\ ~CISignal /\ ~BuildSignal))
    /\ pc = "failed" =>
           /\ env = {} /\ authConfig = {} /\ printed = <<>>
           /\ Len(thrown) = 1
           /\ console # <<>>
           /\ thrown = << SchemaError >> =>
                  /\ issues # <<>>
                  /\ Len(reported) = Len(issues)
                  /\ \A i \in DOMAIN issues :
                         reported[i] = Line(issues[i].path, issues[i].message)
           /\ thrown # << SchemaError >> =>
                  (thrown = << GuardError >> /\ console = << Line("", GuardLog) >>)
    /\ pc = "running" =>
           /\ env # {} /\ thrown = <<>> /\ console = <<>>
           /\ issues = <<>>

\* C10: a start on an invalid configuration (a schema violation, or the
\* production guard) ends failed: exactly one error escapes, a diagnostic was
\* logged, a schema violation logged one (path, message) line per issue in
\* order, no record and no authConfig is exported and no accessor has run; a
\* start that exports a record raised and logged nothing.
C10_FatalAndLogged ==
    Started => FatalAndLogged(EnvSchemaParse.issues, Reported(console))

\* C10 witness: a start with two schema issues logged both and failed
C10_Witness ==
    /\ pc = "failed"
    /\ thrown = << SchemaError >>
    /\ Len(Reported(console)) = 2
    /\ Reported(console)[1].path # Reported(console)[2].path

----------------------------------------------------------------------------
(* Properties of the credentials provider and the callbacks (SpecAuth)     *)

\* the step is a call of authorize
AuthorizeStep == authResult'.serial # authResult.serial

\* the three rejections of a call with both credentials supplied, judged on
\* the table the call read
NoSuchUser(c) == \A u \in db : Some(u.email) # c.email

NoStoredHash(c) == \E u \in db : Some(u.email) = c.email /\ ~Truthy(u.password)

WrongPassword(c, verifies) ==
    \E u \in db : Some(u.email) = c.email /\ Truthy(u.password) /\ ~verifies

Supplied(c) == Truthy(c.email) /\ Truthy(c.password)

\* what the caller of authorize sees
Visible(r) == [kind |-> r.kind, message |-> r.message, identity |-> r.identity]

GenericRejection ==
    [kind |-> "error", message |-> "Invalid email or password", identity |-> {}]

\* C3: a call of authorize with an email and a password supplied is rejected
\* with the one message 'Invalid email or password', and with nothing else
\* visible, in each of the three cases: no user has the email, the user has
\* no stored hash, the verifier rejects the password; and what a rejected
\* caller sees never depends on the table or the verifier, only on whether
\* both credentials were supplied.
C3_GenericRejection ==
    [][ AuthorizeStep =>
            /\ (Supplied(authResult'.credentials)
                /\ (\/ NoSuchUser(authResult'.credentials)
                    \/ NoStoredHash(authResult'.credentials)
                    \/ WrongPassword(authResult'.credentials, authResult'.verifies)))
               => Visible(authResult') = GenericRejection
            /\ authResult'.kind = "error" =>
                   Visible(authResult') =
                       IF Supplied(authResult'.credentials)
                       THEN GenericRejection
                       ELSE [GenericRejection EXCEPT
                                !.message = "Please provide email and password"]
      ]_vars

\* C3 witness: a wrong password for an existing account was rejected generically
C3_Witness ==
    /\ Visible(authResult) = GenericRejection
    /\ Supplied(authResult.credentials)
    /\ WrongPassword(authResult.credentials, authResult.verifies)

\* the identity names the record u: its id read back as a number, its email,
\* name and image
ProjectionOf(identity, u) ==
    /\ DOMAIN identity = {"id", "email", "name", "image"}
    /\ identity.id # Null
    /\ ~Number(identity.id[1]).nan
    /\ Number(identity.id[1]).val = u.id
    /\ identity.email = Some(u.email)
    /\ identity.name = u.name
    /\ identity.image = u.image

\* C4: a call of authorize returns an identity only if a record of the table
\* has the supplied email and a stored hash and the verifier accepted; the
\* identity is then the (id, email, name, image) of that record, the id in
\* decimal text; a rejected call returns none; and the call, accepted or
\* rejected, leaves the table as it was.
C4_IdentityOnlyWhenVerified ==
    [][ AuthorizeStep =>
            /\ db' = db
            /\ authResult'.kind \in {"ok", "error"}
            /\ authResult'.kind = "error" => authResult'.identity = {}
            /\ authResult'.kind = "ok" =>
                   /\ Supplied(authResult'.credentials)
                   /\ authResult'.verifies
                   /\ Cardinality(authResult'.identity) = 1
                   /\ \E u \in db :
                          /\ Some(u.email) = authResult'.credentials.email
                          /\ Truthy(u.password)
                          /\ \A i \in authResult'.identity : ProjectionOf(i, u)
      ]_vars

\* C4 witness: the account with id 12 signed in and got the id "12"
C4_Witness ==
    /\ authResult.kind = "ok"
    /\ \E i \in authResult.identity :
           i.id = Some(<< "1", "2" >>) /\ i.email = Some("ann@example.com")
    /\ \E u \in db : u.id = 12

\* the identity fields of the token are those of the identity u
Carries(tok, u) ==
    /\ tok.id = u.id
    /\ tok.email = u.email
    /\ tok.name = u.name
    /\ tok.picture = u.image

\* C6: the token changes only in a step that hands an identity to the jwt
\* callback, which copies id, email, name and image into it; every other call
\* returns the token with all its fields unchanged, so the token always
\* carries the fields of the identity that signed in last.
C6_TokenCopiedOnSignInOnly ==
    /\ [](\A u \in lastUser : Carries(token, u))
    /\ [](lastUser = {} => token = NoToken)
    /\ [][ lastUser' = lastUser => token' = token ]_vars
    /\ [][ lastUser' # lastUser => \A u \in lastUser' : Carries(token', u) /\ token'.sub = u.id ]_vars

\* C6 witness: the token still carries the identity after refreshes and a
\* session materialization
C6_Witness ==
    /\ refreshes = MaxRefreshes
    /\ fresh > 0
    /\ \E u \in lastUser : Carries(token, u) /\ u.name # Null

\* the user projection of a session, read off the token
UserOf(tok) ==
    [id |-> tok.id, email |-> tok.email, name |-> tok.name, image |-> tok.picture]

\* jwt without an identity, then session, applied n times to the session object
RECURSIVE Materialize(_, _, _)
Materialize(sess, tok, n) ==
    IF n = 0 THEN [session |-> sess, token |-> tok]
    ELSE Materialize(sessionCallback(sess, jwt(tok, {})), jwt(tok, {}), n - 1)

\* C7: while the token is unchanged, every materialization of a session that
\* has a user object yields the user projection read off the token, the same
\* as the first materialization did; and materializing any session object the
\* engine may pass twice or more gives what materializing it once gives.
C7_SessionIdempotent ==
    /\ (fresh > 0 /\ session.user # {}) =>
           (session.user = { UserOf(token) } /\ session.user = firstUser)
    /\ \A sess \in SessionInputs : \A n \in 2 .. (MaxMaterializations + 1) :
           Materialize(sess, token, n) = Materialize(sess, token, 1)

\* C7 witness: a second materialization on the same token, from a session
\* object with stale fields, gave the projection of the token
C7_Witness ==
    /\ fresh = MaxMaterializations
    /\ fresh > 1
    /\ token.id # Null
    /\ session.user = { UserOf(token) }
    /\ session.user = firstUser

====
